---- MODULE Spec2Model ----
(***************************************************************************)
(* Model of server/token_exchange.py: the configuration loader             *)
(* (Config.from_env), the Basic-Auth header, and the two Flask handlers    *)
(* /exchange and /refresh that relay a token request to the upstream       *)
(* token endpoint.                                                         *)
(*                                                                         *)
(* Text that the program inspects byte by byte (client id, client secret,  *)
(* PORT, the Authorization header) is a sequence of ASCII codes.  Text     *)
(* the program only copies or tests for emptiness is a TLA+ string.        *)
(***************************************************************************)
EXTENDS Integers, Sequences, FiniteSets

VARIABLES pc, env, config, startupError, listen, reqs, sent

vars == <<pc, env, config, startupError, listen, reqs, sent>>

(* Number of request slots of one run. *)
MaxReq == 2

Slots == 1..MaxReq

----------------------------------------------------------------------------
(* Environment                                                             *)

Unset == [set |-> FALSE, val |-> <<>>]
Val(s) == [set |-> TRUE, val |-> s]

UnsetStr == [set |-> FALSE, val |-> ""]
ValStr(s) == [set |-> TRUE, val |-> s]

(* "id" *)
IdTexts == {<<105, 100>>}
(* "s", "ke", "key": with "id:" in front, one of each length modulo 3 *)
SecretTexts == {<<115>>, <<107, 101>>, <<107, 101, 121>>}
(* " 80", "8x" and "" *)
PortTexts == {<<32, 56, 48>>, <<56, 120>>, <<>>}

IdVals == {Unset, Val(<<>>)} \cup {Val(s) : s \in IdTexts}
SecretVals == {Unset, Val(<<>>)} \cup {Val(s) : s \in SecretTexts}
PortVals == {Val(s) : s \in PortTexts}

MkEnv(i, s, r, p) ==
    [SPOTIFY_CLIENT_ID |-> i, SPOTIFY_CLIENT_SECRET |-> s, REDIRECT_URI |-> r, PORT |-> p]

(* The environments of the runs: every combination of the two credentials  *)
(* with the optional variables unset, and both credentials present with    *)
(* REDIRECT_URI set and PORT set to each of its texts.                     *)
Envs ==
    {MkEnv(i, s, UnsetStr, Unset) : i \in IdVals, s \in SecretVals}
    \cup {MkEnv(Val(<<105, 100>>), Val(<<107, 101, 121>>), ValStr("app://cb"), p) : p \in PortVals}

(* os.getenv(name) is falsy when the variable is unset or empty. *)
Falsy(v) == ~v.set \/ v.val = <<>>

(* os.getenv(name, default) *)
GetenvDefault(v, d) == IF v.set THEN v.val ELSE d

----------------------------------------------------------------------------
(* int(text)                                                               *)

IsSpace(c) == c \in {32, 9, 10, 13}
IsDigit(c) == c \in 48..57

RECURSIVE LStrip(_)
LStrip(s) == IF s # <<>> /\ IsSpace(Head(s)) THEN LStrip(Tail(s)) ELSE s

RECURSIVE RStrip(_)
RStrip(s) ==
    IF s # <<>> /\ IsSpace(s[Len(s)]) THEN RStrip(SubSeq(s, 1, Len(s) - 1)) ELSE s

RECURSIVE DigitsValue(_, _)
DigitsValue(s, acc) ==
    IF s = <<>> THEN acc ELSE DigitsValue(Tail(s), acc * 10 + (Head(s) - 48))

(* Python's int() on a decimal string: surrounding whitespace is dropped,  *)
(* one sign is allowed, the rest must be a non-empty run of digits;        *)
(* anything else raises ValueError.                                        *)
PyInt(text) ==
    LET t == RStrip(LStrip(text))
        signed == t # <<>> /\ Head(t) \in {43, 45}
        d == IF signed THEN Tail(t) ELSE t
        good == d # <<>> /\ \A k \in 1..Len(d) : IsDigit(d[k])
    IN  IF good
        THEN [ok |-> TRUE,
              val |-> IF signed /\ Head(t) = 45 THEN 0 - DigitsValue(d, 0) ELSE DigitsValue(d, 0)]
        ELSE [ok |-> FALSE, val |-> 0]

----------------------------------------------------------------------------
(* Config.from_env                                                         *)

DefaultRedirectUri == "spotify-liquid-glass://auth"
(* "5001" *)
DefaultPortText == <<53, 48, 48, 49>>

NoError == [type |-> "none", names |-> <<>>]

(* Variant: the loader stops at the first missing variable. *)
MissingNamesFirstOnly(e) ==
    IF Falsy(e.SPOTIFY_CLIENT_ID) THEN <<"SPOTIFY_CLIENT_ID">>
    ELSE IF Falsy(e.SPOTIFY_CLIENT_SECRET) THEN <<"SPOTIFY_CLIENT_SECRET">>
    ELSE <<>>

MissingNames(e) ==
    (IF Falsy(e.SPOTIFY_CLIENT_ID) THEN <<"SPOTIFY_CLIENT_ID">> ELSE <<>>)
    \o (IF Falsy(e.SPOTIFY_CLIENT_SECRET) THEN <<"SPOTIFY_CLIENT_SECRET">> ELSE <<>>)

(* The result of Config.from_env(): a Config, or the exception it raises.  *)
(* The RuntimeError message is "Missing environment variables: " followed  *)
(* by the names joined with ", "; names holds the joined list.             *)
FromEnv(e) ==
    LET missing == MissingNames(e)
        redirect_uri == GetenvDefault(e.REDIRECT_URI, DefaultRedirectUri)
        port == PyInt(GetenvDefault(e.PORT, DefaultPortText))
    IN  IF missing # <<>>
        THEN [ok |-> FALSE, error |-> [type |-> "RuntimeError", names |-> missing], config |-> <<>>]
        ELSE IF ~port.ok
        THEN [ok |-> FALSE, error |-> [type |-> "ValueError", names |-> <<>>], config |-> <<>>]
        ELSE [ok |-> TRUE, error |-> NoError,
              config |-> <<[client_id |-> e.SPOTIFY_CLIENT_ID.val,
                            client_secret |-> e.SPOTIFY_CLIENT_SECRET.val,
                            redirect_uri |-> redirect_uri,
                            port |-> port.val]>>]

----------------------------------------------------------------------------
(* _basic_auth_header                                                      *)

(* The character of the standard base64 alphabet with index i. *)
B64Char(i) ==
    IF i < 26 THEN 65 + i
    ELSE IF i < 52 THEN 97 + (i - 26)
    ELSE IF i < 62 THEN 48 + (i - 52)
    ELSE IF i = 62 THEN 43
    ELSE 47

(* "=" *)
B64Pad == 61

RECURSIVE B64Encode(_)
B64Encode(bytes) ==
    IF bytes = <<>> THEN <<>>
    ELSE IF Len(bytes) = 1 THEN
        LET n == bytes[1] * 65536
        IN  <<B64Char(n \div 262144), B64Char((n \div 4096) % 64), B64Pad, B64Pad>>
    ELSE IF Len(bytes) = 2 THEN
        LET n == bytes[1] * 65536 + bytes[2] * 256
        IN  <<B64Char(n \div 262144), B64Char((n \div 4096) % 64),
              B64Char((n \div 64) % 64), B64Pad>>
    ELSE
        LET n == bytes[1] * 65536 + bytes[2] * 256 + bytes[3]
        IN  <<B64Char(n \div 262144), B64Char((n \div 4096) % 64),
              B64Char((n \div 64) % 64), B64Char(n % 64)>>
            \o B64Encode(SubSeq(bytes, 4, Len(bytes)))

(* "Basic " *)
BasicPrefix == <<66, 97, 115, 105, 99, 32>>
(* ":" *)
Colon == 58

BasicAuthHeader(cfg) ==
    LET raw == cfg.client_id \o <<Colon>> \o cfg.client_secret
    IN  BasicPrefix \o B64Encode(raw)

----------------------------------------------------------------------------
(* Request bodies and request.get_json(silent=True)                        *)

Absent == [t |-> "absent", s |-> ""]
JNull == [t |-> "null", s |-> ""]
JStr(s) == [t |-> "str", s |-> s]

EmptyBody == [raw |-> "empty", t |-> "none", code |-> Absent, refresh_token |-> Absent, n |-> 0]
GarbageBody == [raw |-> "garbage", t |-> "none", code |-> Absent, refresh_token |-> Absent, n |-> 0]
JObj(c, r) == [raw |-> "json", t |-> "obj", code |-> c, refresh_token |-> r, n |-> 0]
JArr(n) == [raw |-> "json", t |-> "arr", code |-> Absent, refresh_token |-> Absent, n |-> n]

(* The request bodies of the runs: no body, a body that is not JSON, JSON  *)
(* arrays (empty and not), and JSON objects with the two fields absent,    *)
(* null, empty or set.                                                     *)
Bodies ==
    {EmptyBody, GarbageBody, JArr(0), JArr(1),
     JObj(Absent, Absent), JObj(JStr(""), JNull),
     JObj(JStr("abc"), JStr("r1")), JObj(JStr("xyz"), Absent)}

PyNone == [t |-> "None", code |-> Absent, refresh_token |-> Absent, n |-> 0]
PyEmptyDict == [t |-> "dict", code |-> Absent, refresh_token |-> Absent, n |-> 0]

(* request.get_json(silent=True): None when the body is missing or does    *)
(* not parse, otherwise the parsed value.                                  *)
GetJson(body) ==
    IF body.raw # "json" THEN PyNone
    ELSE [t |-> IF body.t = "obj" THEN "dict" ELSE "list",
          code |-> body.code, refresh_token |-> body.refresh_token, n |-> body.n]

(* Truth value of a parsed body: None, {} and [] are false. *)
PyTruthy(v) ==
    CASE v.t = "None" -> FALSE
      [] v.t = "dict" -> v.code.t # "absent" \/ v.refresh_token.t # "absent"
      [] v.t = "list" -> v.n > 0

(* request.get_json(silent=True) or {} *)
Payload(body) == IF PyTruthy(GetJson(body)) THEN GetJson(body) ELSE PyEmptyDict

(* not payload.get(key): the key is missing, null or the empty string. *)
NotField(f) == f.t # "str" \/ f.s = ""

----------------------------------------------------------------------------
(* The handlers                                                            *)

SPOTIFY_TOKEN_URL == "https://accounts.spotify.com/api/token"

Timeout == 10

NoResp == [status |-> 0, ctype |-> "none", body |-> [none |-> TRUE], fmt |-> "none"]

(* jsonify(value), status *)
Jsonify(value, status) ==
    [status |-> status, ctype |-> "json", body |-> value, fmt |-> "flask"]

Return(resp) == [result |-> "return", resp |-> resp, exc |-> "none", call |-> <<>>]
Raise(exc) == [result |-> "raise", resp |-> NoResp, exc |-> exc, call |-> <<>>]
Post(call) == [result |-> "post", resp |-> NoResp, exc |-> "none", call |-> <<call>>]

(* The two error messages; the source writes the field name between       *)
(* backquotes, written here as apostrophes.                                *)
MissingCode == "missing 'code'"
MissingRefreshToken == "missing 'refresh_token'"

(* exchange_code up to the call of requests.post *)
ExchangeCodeBegin(cfg, body) ==
    LET payload == Payload(body)
    IN  IF payload.t # "dict" THEN Raise("AttributeError")
        ELSE IF NotField(payload.code)
        THEN Return(Jsonify([error |-> MissingCode], 400))
        ELSE Post([url |-> SPOTIFY_TOKEN_URL,
                   data |-> [grant_type |-> "authorization_code",
                             code |-> payload.code.s,
                             redirect_uri |-> cfg.redirect_uri],
                   headers |-> [ContentType |-> "application/x-www-form-urlencoded",
                                Authorization |-> BasicAuthHeader(cfg)],
                   timeout |-> Timeout])

(* Variant: the refresh call also carries the redirect_uri. *)
RefreshTokenBeginWithRedirect(cfg, body) ==
    LET payload == Payload(body)
    IN  IF payload.t # "dict" THEN Raise("AttributeError")
        ELSE IF NotField(payload.refresh_token)
        THEN Return(Jsonify([error |-> MissingRefreshToken], 400))
        ELSE Post([url |-> SPOTIFY_TOKEN_URL,
                   data |-> [grant_type |-> "refresh_token",
                             refresh_token |-> payload.refresh_token.s,
                             redirect_uri |-> cfg.redirect_uri],
                   headers |-> [ContentType |-> "application/x-www-form-urlencoded",
                                Authorization |-> BasicAuthHeader(cfg)],
                   timeout |-> Timeout])

(* refresh_token up to the call of requests.post *)
RefreshTokenBegin(cfg, body) ==
    LET payload == Payload(body)
    IN  IF payload.t # "dict" THEN Raise("AttributeError")
        ELSE IF NotField(payload.refresh_token)
        THEN Return(Jsonify([error |-> MissingRefreshToken], 400))
        ELSE Post([url |-> SPOTIFY_TOKEN_URL,
                   data |-> [grant_type |-> "refresh_token",
                             refresh_token |-> payload.refresh_token.s],
                   headers |-> [ContentType |-> "application/x-www-form-urlencoded",
                                Authorization |-> BasicAuthHeader(cfg)],
                   timeout |-> Timeout])

(* JSON bodies of the upstream. *)
TokenJson == [access_token |-> "X", token_type |-> "Bearer"]
InvalidClientJson == [error |-> "invalid_client"]
NoJson == [none |-> TRUE]

UpstreamResponse(status, json, value) ==
    [kind |-> "response", status |-> status, json |-> json, value |-> value]
ConnectionError == [kind |-> "ConnectionError", status |-> 0, json |-> FALSE, value |-> NoJson]
TimeoutError == [kind |-> "Timeout", status |-> 0, json |-> FALSE, value |-> NoJson]
Hang == [kind |-> "hang", status |-> 0, json |-> FALSE, value |-> NoJson]
NoOutcome == [kind |-> "none", status |-> 0, json |-> FALSE, value |-> NoJson]

(* The answers of the upstream: token and error bodies in JSON, and a      *)
(* gateway page that is not JSON.                                          *)
UpstreamResponses ==
    {UpstreamResponse(200, TRUE, TokenJson),
     UpstreamResponse(401, TRUE, InvalidClientJson),
     UpstreamResponse(502, FALSE, NoJson)}

(* Variant: requests.post is called without a timeout. *)
PostOutcomesNoTimeout(call) == UpstreamResponses \cup {ConnectionError, Hang}

(* What requests.post(url, data=..., headers=..., timeout=t) can do: return *)
(* a response, raise ConnectionError, or, when no byte arrives for t       *)
(* seconds, raise Timeout.  Without a timeout it waits forever instead.    *)
PostOutcomes(call) ==
    UpstreamResponses \cup {ConnectionError}
    \cup (IF call.timeout > 0 THEN {TimeoutError} ELSE {Hang})

(* Variant: an upstream error status is answered with a generic 502. *)
ExchangeCodeEndGeneric(call, o) ==
    IF o.kind # "response" THEN Raise(o.kind)
    ELSE IF ~o.json THEN Raise("JSONDecodeError")
    ELSE IF o.status >= 400 THEN Return(Jsonify([error |-> "upstream error"], 502))
    ELSE Return(Jsonify(o.value, o.status))

(* Variant: a failed upstream call is answered with a 502 that echoes the  *)
(* headers of the call.                                                    *)
ExchangeCodeEndEcho(call, o) ==
    IF o.kind # "response"
    THEN Return(Jsonify([error |-> "upstream error", request_headers |-> call.headers], 502))
    ELSE IF ~o.json THEN Raise("JSONDecodeError")
    ELSE Return(Jsonify(o.value, o.status))

(* return jsonify(response.json()), response.status_code: response.json()  *)
(* raises on a body that is not JSON; an exception of requests.post passes *)
(* through the handler.                                                    *)
ExchangeCodeEnd(call, o) ==
    IF o.kind # "response" THEN Raise(o.kind)
    ELSE IF ~o.json THEN Raise("JSONDecodeError")
    ELSE Return(Jsonify(o.value, o.status))

RefreshTokenEnd(call, o) ==
    IF o.kind # "response" THEN Raise(o.kind)
    ELSE IF ~o.json THEN Raise("JSONDecodeError")
    ELSE Return(Jsonify(o.value, o.status))

(* What Flask sends for the result of a handler: the response, or for      *)
(* an exception that leaves the handler a 500 page, which under debug is   *)
(* the traceback of the exception.                                         *)
FlaskDispatch(res, debug) ==
    IF res.result = "return" THEN res.resp
    ELSE [status |-> 500, ctype |-> "html",
          body |-> IF debug THEN [traceback |-> res.exc] ELSE [page |-> "Internal Server Error"],
          fmt |-> "werkzeug"]

----------------------------------------------------------------------------
(* State                                                                   *)

IdleReq ==
    [st |-> "idle", kind |-> "none", body |-> EmptyBody, outcome |-> NoOutcome,
     raised |-> "none", resp |-> NoResp, quiet |-> TRUE]

NotListening == [host |-> "", port |-> 0, debug |-> FALSE]

Init ==
    /\ pc = "boot"
    /\ env \in Envs
    /\ config = <<>>
    /\ startupError = NoError
    /\ listen = NotListening
    /\ reqs = [i \in Slots |-> IdleReq]
    /\ sent = [i \in Slots |-> <<>>]

(* config = Config.from_env() *)
LoadConfig ==
    /\ pc = "boot"
    /\ LET r == FromEnv(env)
       IN  /\ pc' = IF r.ok THEN "loaded" ELSE "failed"
           /\ config' = r.config
           /\ startupError' = r.error
    /\ UNCHANGED <<env, listen, reqs, sent>>

(* app.run(host="127.0.0.1", port=config.port, debug=True) *)
AppRun ==
    /\ pc = "loaded"
    /\ pc' = "serving"
    /\ listen' = [host |-> "127.0.0.1", port |-> config[1].port, debug |-> TRUE]
    /\ UNCHANGED <<env, config, startupError, reqs, sent>>

(* Requests take the slots in the order of their arrival. *)
NextSlot(i) ==
    /\ reqs[i].st = "idle"
    /\ \A j \in Slots : j < i => reqs[j].st # "idle"

Done(i) == reqs[i].st = "done"

Arrived(i, kind, body, b) ==
    [st |-> IF b.result = "post" THEN "calling" ELSE "done",
     kind |-> kind, body |-> body, outcome |-> NoOutcome,
     raised |-> b.exc,
     resp |-> IF b.result = "post" THEN NoResp ELSE FlaskDispatch(b, listen.debug),
     quiet |-> \A j \in Slots : j < i => Done(j)]

Finished(r, o, e) ==
    [r EXCEPT !.st = IF o.kind = "hang" THEN "blocked" ELSE "done",
              !.outcome = o,
              !.raised = IF o.kind = "hang" THEN "none" ELSE e.exc,
              !.resp = IF o.kind = "hang" THEN NoResp ELSE FlaskDispatch(e, listen.debug)]

(* Variant: the handler stores the received code in the global config. *)
ExchangeCodeStartWritesConfig(i, body) ==
    /\ pc = "serving"
    /\ NextSlot(i)
    /\ LET b == ExchangeCodeBegin(config[1], body)
       IN  /\ reqs' = [reqs EXCEPT ![i] = Arrived(i, "exchange", body, b)]
           /\ sent' = [sent EXCEPT ![i] = sent[i] \o b.call]
           /\ config' = IF b.result = "post"
                        THEN <<[config[1] EXCEPT !.redirect_uri = b.call[1].data.code]>>
                        ELSE config
    /\ UNCHANGED <<pc, env, startupError, listen>>

(* POST /exchange arrives; exchange_code runs until it blocks in           *)
(* requests.post or ends.                                                  *)
ExchangeCodeStart(i, body) ==
    /\ pc = "serving"
    /\ NextSlot(i)
    /\ LET b == ExchangeCodeBegin(config[1], body)
       IN  /\ reqs' = [reqs EXCEPT ![i] = Arrived(i, "exchange", body, b)]
           /\ sent' = [sent EXCEPT ![i] = sent[i] \o b.call]
    /\ UNCHANGED <<pc, env, config, startupError, listen>>

(* Variant: an exception that leaves the handler ends the process. *)
ExchangeCodeFinishCrash(i, o) ==
    /\ pc = "serving"
    /\ reqs[i].st = "calling"
    /\ reqs[i].kind = "exchange"
    /\ o \in PostOutcomes(sent[i][Len(sent[i])])
    /\ reqs' = [reqs EXCEPT ![i] =
                   Finished(reqs[i], o, ExchangeCodeEnd(sent[i][Len(sent[i])], o))]
    /\ pc' = IF ExchangeCodeEnd(sent[i][Len(sent[i])], o).result = "raise"
             THEN "crashed" ELSE pc
    /\ UNCHANGED <<env, config, startupError, listen, sent>>

(* requests.post of an /exchange request ends; exchange_code ends. *)
ExchangeCodeFinish(i, o) ==
    /\ pc = "serving"
    /\ reqs[i].st = "calling"
    /\ reqs[i].kind = "exchange"
    /\ o \in PostOutcomes(sent[i][Len(sent[i])])
    /\ reqs' = [reqs EXCEPT ![i] =
                   Finished(reqs[i], o, ExchangeCodeEnd(sent[i][Len(sent[i])], o))]
    /\ UNCHANGED <<pc, env, config, startupError, listen, sent>>

(* POST /refresh arrives; refresh_token runs until it blocks in            *)
(* requests.post or ends.                                                  *)
RefreshTokenStart(i, body) ==
    /\ pc = "serving"
    /\ NextSlot(i)
    /\ LET b == RefreshTokenBegin(config[1], body)
       IN  /\ reqs' = [reqs EXCEPT ![i] = Arrived(i, "refresh", body, b)]
           /\ sent' = [sent EXCEPT ![i] = sent[i] \o b.call]
    /\ UNCHANGED <<pc, env, config, startupError, listen>>

(* requests.post of a /refresh request ends; refresh_token ends. *)
RefreshTokenFinish(i, o) ==
    /\ pc = "serving"
    /\ reqs[i].st = "calling"
    /\ reqs[i].kind = "refresh"
    /\ o \in PostOutcomes(sent[i][Len(sent[i])])
    /\ reqs' = [reqs EXCEPT ![i] =
                   Finished(reqs[i], o, RefreshTokenEnd(sent[i][Len(sent[i])], o))]
    /\ UNCHANGED <<pc, env, config, startupError, listen, sent>>

(* The outcomes an upstream call of the model can be given. *)
Outcomes == UpstreamResponses \cup {ConnectionError, TimeoutError, Hang}

Next ==
    \/ LoadConfig
    \/ AppRun
    \/ \E i \in Slots, body \in Bodies : ExchangeCodeStart(i, body)
    \/ \E i \in Slots, o \in Outcomes : ExchangeCodeFinish(i, o)
    \/ \E i \in Slots, body \in Bodies : RefreshTokenStart(i, body)
    \/ \E i \in Slots, o \in Outcomes : RefreshTokenFinish(i, o)

Spec == Init /\ [][Next]_vars

(* requests.post with a timeout always ends, so a handler blocked in it    *)
(* goes on.                                                                *)
LiveSpec ==
    /\ Spec
    /\ \A i \in Slots :
        /\ WF_vars(\E o \in Outcomes : ExchangeCodeFinish(i, o))
        /\ WF_vars(\E o \in Outcomes : RefreshTokenFinish(i, o))

----------------------------------------------------------------------------
(* Vocabulary of the properties                                            *)

Cfg == config[1]

Received(i) == reqs[i].st # "idle"

FieldOf(kind, body) == IF kind = "exchange" THEN body.code ELSE body.refresh_token

(* The body is a JSON object whose field for this handler is a non-empty   *)
(* string.                                                                 *)
HasField(kind, body) ==
    /\ body.raw = "json"
    /\ body.t = "obj"
    /\ FieldOf(kind, body).t = "str"
    /\ FieldOf(kind, body).s # ""

MissingMessage(kind) == IF kind = "exchange" THEN MissingCode ELSE MissingRefreshToken

(* The upstream call failed, or its answer is not JSON. *)
UpstreamFailed(o) ==
    \/ o.kind \in {"ConnectionError", "Timeout"}
    \/ o.kind = "response" /\ ~o.json

IsServerError(resp) == resp.status \in 500..599

(* The response of one request, from its own inputs alone. *)
HandlerResponse(cfg, kind, body, o) ==
    LET b == IF kind = "exchange" THEN ExchangeCodeBegin(cfg, body)
             ELSE RefreshTokenBegin(cfg, body)
    IN  IF b.result # "post" THEN FlaskDispatch(b, listen.debug)
        ELSE IF kind = "exchange"
        THEN FlaskDispatch(ExchangeCodeEnd(b.call[1], o), listen.debug)
        ELSE FlaskDispatch(RefreshTokenEnd(b.call[1], o), listen.debug)

(* Base64 decoding, for reading an Authorization header back. *)
B64Index(c) ==
    IF c \in 65..90 THEN c - 65
    ELSE IF c \in 97..122 THEN c - 97 + 26
    ELSE IF c \in 48..57 THEN c - 48 + 52
    ELSE IF c = 43 THEN 62
    ELSE 63

RECURSIVE B64Decode(_)
B64Decode(chars) ==
    IF Len(chars) < 4 THEN <<>>
    ELSE
        LET a == B64Index(chars[1])
            b == B64Index(chars[2])
            c == IF chars[3] = B64Pad THEN 0 ELSE B64Index(chars[3])
            d == IF chars[4] = B64Pad THEN 0 ELSE B64Index(chars[4])
            n == a * 262144 + b * 4096 + c * 64 + d
            bytes == <<n \div 65536, (n \div 256) % 256, n % 256>>
            keep == IF chars[3] = B64Pad THEN 1 ELSE IF chars[4] = B64Pad THEN 2 ELSE 3
        IN  SubSeq(bytes, 1, keep) \o B64Decode(SubSeq(chars, 5, Len(chars)))

(* The credentials an Authorization header carries, <<>> when it is not a  *)
(* Basic header.                                                           *)
BasicCredentials(header) ==
    IF Len(header) >= Len(BasicPrefix) /\ SubSeq(header, 1, Len(BasicPrefix)) = BasicPrefix
    THEN B64Decode(SubSeq(header, Len(BasicPrefix) + 1, Len(header)))
    ELSE <<>>

----------------------------------------------------------------------------
(* C1: for both handlers, a request that passes validation and whose       *)
(* upstream call is answered with a JSON body B and a status S is answered *)
(* with body B and status S, whatever S is.                                *)
RelayVerbatim ==
    \A i \in Slots :
        (/\ Done(i)
         /\ HasField(reqs[i].kind, reqs[i].body)
         /\ reqs[i].outcome.kind = "response"
         /\ reqs[i].outcome.json)
        => /\ reqs[i].raised = "none"
           /\ reqs[i].resp.ctype = "json"
           /\ reqs[i].resp.status = reqs[i].outcome.status
           /\ reqs[i].resp.body = reqs[i].outcome.value

RelayVerbatimWitness ==
    \E i, j \in Slots :
        /\ Done(i) /\ reqs[i].kind = "exchange"
        /\ reqs[i].outcome = UpstreamResponse(200, TRUE, TokenJson)
        /\ reqs[i].resp.body = TokenJson
        /\ Done(j) /\ reqs[j].kind = "refresh"
        /\ reqs[j].outcome = UpstreamResponse(401, TRUE, InvalidClientJson)
        /\ reqs[j].resp.body = InvalidClientJson

(* C2: a request whose body lacks the field of its handler (no body, not   *)
(* JSON, not an object, field absent or empty) is answered 400 with the    *)
(* message naming the field, and no upstream call is made.                 *)
MissingFieldIs400 ==
    \A i \in Slots :
        (Received(i) /\ ~HasField(reqs[i].kind, reqs[i].body))
        => /\ Done(i)
           /\ reqs[i].resp.status = 400
           /\ reqs[i].resp.body = [error |-> MissingMessage(reqs[i].kind)]
           /\ sent[i] = <<>>

(* C3: when the upstream call fails or its answer is not JSON, the handler *)
(* catches the failure and answers with a JSON 5xx response; no exception  *)
(* leaves the handler.                                                     *)
UpstreamFailureIsCaught ==
    \A i \in Slots :
        (Done(i) /\ UpstreamFailed(reqs[i].outcome))
        => /\ reqs[i].raised = "none"
           /\ reqs[i].resp.ctype = "json"
           /\ IsServerError(reqs[i].resp)

IdMissing == ~env.SPOTIFY_CLIENT_ID.set \/ env.SPOTIFY_CLIENT_ID.val = <<>>
SecretMissing == ~env.SPOTIFY_CLIENT_SECRET.set \/ env.SPOTIFY_CLIENT_SECRET.val = <<>>

Listed(name) == \E k \in 1..Len(startupError.names) : startupError.names[k] = name

(* C4: when a credential variable is absent or empty, loading fails with   *)
(* an error that lists every missing name, no Config exists, and the       *)
(* service never serves.                                                   *)
MissingCredentialsFailStartup ==
    (pc # "boot" /\ (IdMissing \/ SecretMissing))
    => /\ pc = "failed"
       /\ config = <<>>
       /\ startupError.type = "RuntimeError"
       /\ (Listed("SPOTIFY_CLIENT_ID") <=> IdMissing)
       /\ (Listed("SPOTIFY_CLIENT_SECRET") <=> SecretMissing)
       /\ listen = NotListening
       /\ \A i \in Slots : ~Received(i)

MissingCredentialsWitness ==
    /\ pc = "failed"
    /\ IdMissing /\ SecretMissing
    /\ Len(startupError.names) = 2

(* C5: the response to a request is the same whatever the configured       *)
(* client secret is, the request and the upstream outcome being the same.  *)
ResponseIgnoresSecret ==
    \A i \in Slots :
        Done(i) =>
            \A s \in SecretTexts :
                HandlerResponse([Cfg EXCEPT !.client_secret = s],
                                reqs[i].kind, reqs[i].body, reqs[i].outcome) = reqs[i].resp

ResponseIgnoresSecretWitness ==
    \E i, j \in Slots :
        /\ Done(i) /\ sent[i] # <<>> /\ UpstreamFailed(reqs[i].outcome)
        /\ Done(j) /\ sent[j] # <<>> /\ reqs[j].resp.status = 200

(* C6: every request the service has received is eventually answered, and  *)
(* a request whose upstream call timed out is answered with a 5xx status.  *)
EveryRequestAnswered ==
    \A i \in Slots :
        Received(i) ~>
            (/\ Done(i)
             /\ reqs[i].resp # NoResp
             /\ (reqs[i].outcome.kind = "Timeout" => IsServerError(reqs[i].resp)))

EveryRequestAnsweredWitness ==
    \E i \in Slots :
        /\ Done(i)
        /\ reqs[i].outcome.kind = "Timeout"
        /\ reqs[i].resp.status = 500

PortInvalid == env.PORT.set /\ ~PyInt(env.PORT.val).ok

(* C7: with both credentials present and PORT not an integer, loading      *)
(* fails with the error kind used for missing variables, and the service   *)
(* does not serve.                                                         *)
InvalidPortIsConfigurationError ==
    (pc # "boot" /\ ~IdMissing /\ ~SecretMissing /\ PortInvalid)
    => /\ pc = "failed"
       /\ startupError.type = "RuntimeError"

(* C8: a request that passes validation makes exactly one upstream call,   *)
(* also when the call fails, and any other request makes none; the call of *)
(* /exchange carries grant_type, code and the configured redirect_uri, the *)
(* call of /refresh carries grant_type and refresh_token only, and both    *)
(* carry the Basic header of the configured client_id and client_secret.   *)
OneCallWithExactFields ==
    \A i \in Slots :
        Received(i) =>
            IF HasField(reqs[i].kind, reqs[i].body)
            THEN /\ Len(sent[i]) = 1
                 /\ sent[i][1].url = SPOTIFY_TOKEN_URL
                 /\ sent[i][1].data =
                        IF reqs[i].kind = "exchange"
                        THEN [grant_type |-> "authorization_code",
                              code |-> reqs[i].body.code.s,
                              redirect_uri |-> Cfg.redirect_uri]
                        ELSE [grant_type |-> "refresh_token",
                              refresh_token |-> reqs[i].body.refresh_token.s]
                 /\ BasicCredentials(sent[i][1].headers.Authorization)
                        = Cfg.client_id \o <<Colon>> \o Cfg.client_secret
            ELSE sent[i] = <<>>

OneCallWitness ==
    \E i, j \in Slots :
        /\ Done(i) /\ reqs[i].kind = "refresh"
        /\ reqs[i].outcome.kind = "ConnectionError"
        /\ Len(sent[i]) = 1
        /\ Done(j) /\ reqs[j].kind = "exchange"
        /\ Len(sent[j]) = 1
        /\ sent[j][1].data.redirect_uri = "app://cb"

(* C9: two equal /exchange requests, the second arriving after the first   *)
(* was answered, whose upstream calls are answered alike, get the same     *)
(* response; and the configuration of a serving process is the one loaded  *)
(* from the environment at startup.                                        *)
RepeatableAndConfigFixed ==
    /\ pc = "serving" => config = FromEnv(env).config
    /\ \A i, j \in Slots :
        (/\ Done(i) /\ Done(j)
         /\ i < j /\ reqs[j].quiet
         /\ reqs[i].kind = "exchange" /\ reqs[j].kind = "exchange"
         /\ reqs[i].body = reqs[j].body
         /\ sent[i] = sent[j]
         /\ reqs[i].outcome = reqs[j].outcome)
        => /\ reqs[i].resp.status = reqs[j].resp.status
           /\ reqs[i].resp.body = reqs[j].resp.body

RepeatableWitness ==
    \E i, j \in Slots :
        /\ Done(i) /\ Done(j)
        /\ i < j /\ reqs[j].quiet
        /\ reqs[i].kind = "exchange" /\ reqs[j].kind = "exchange"
        /\ reqs[i].body = reqs[j].body
        /\ Len(sent[i]) = 1 /\ sent[i] = sent[j]
        /\ reqs[i].outcome = reqs[j].outcome
        /\ reqs[j].resp.status = 200

(* C10: under every interleaving, the response to a request is the one its *)
(* own body and the outcome of its own upstream call give, and a failure   *)
(* of one request leaves the service serving.                              *)
RequestsIndependent ==
    /\ (\E i \in Slots : Received(i)) => pc = "serving"
    /\ \A i \in Slots :
        Done(i) =>
            reqs[i].resp = HandlerResponse(Cfg, reqs[i].kind, reqs[i].body, reqs[i].outcome)

RequestsIndependentWitness ==
    \E i, j \in Slots :
        /\ Done(i) /\ reqs[i].raised # "none"
        /\ i < j /\ ~reqs[j].quiet
        /\ reqs[j].st = "calling"
        /\ pc = "serving"

====
